---- MODULE Spec2Model ----
(***************************************************************************)
(* mkdocs-translate-plugin: the markdown-safe translation pipeline.        *)
(*                                                                         *)
(* A text is a sequence of lexical units (strings).  The units are the     *)
(* ones the regular expressions of the code tell apart:                    *)
(*   FENCE   three backticks            NL      a newline                  *)
(*   "a","b" lowercase letters [a-z]    "X"     any other visible char     *)
(*   " "     a blank                    "#"     a hash                     *)
(*   DASHES  three dashes               Placeholder(i)  a placeholder      *)
(*   "[" "]" "(" ")"  the marks of a link                                  *)
(*   "<think>", "</think>"  the tags of a reasoning region                 *)
(* and the rendered notice, which insert adds as one unit.                 *)
(***************************************************************************)
EXTENDS Integers, Sequences, FiniteSets, TLC

VARIABLES
    \* Code-Fence Protector: one protect / restore round trip
    f_pc, f_content, f_protected, f_blocks, f_result,
    f_code_blocks,  \* the code_blocks argument the restore call was given
    f_error,        \* the exception the restore call raised, "" for none
    \* Notice Inserter: one call of add_translation_notice
    n_pc, n_content, n_theme, n_source_lang, n_target_lang, n_result,
    \* Integrity Checker: one comparison of a source and a translated text
    c_pc, c_source, c_translated, c_warned,
    \* Translation Dispatcher: one call of translate_content
    d_pc, d_config, d_content, d_handler, d_network, d_result,
    \* Sync Driver: the plugin, the docs tree and the runs of on_pre_build
    config,         \* translation_service, translation_service_api_key, theme
    cwd_is_root,    \* the build was started in the parent of docs_dir
    source_text,    \* stem -> text of the source file <stem>.<default>.md
    fs_files,       \* the target files <stem>.<lang>.md that exist
    fs_text,        \* target file -> its text
    run,            \* number of on_pre_build calls started so far
    r_pc,           \* position of the current on_pre_build call
    r_pos,          \* index of the (file, language) pair being examined
    r_log,          \* pair -> what this run did with it
    network,        \* the requests this run handed to providers, in order
    last,           \* the latest completed or failed translate_content call
    prev            \* what the previous run left behind

fenceVars == <<f_pc, f_content, f_protected, f_blocks, f_result, f_code_blocks, f_error>>
noticeVars == <<n_pc, n_content, n_theme, n_source_lang, n_target_lang, n_result>>
integrityVars == <<c_pc, c_source, c_translated, c_warned>>
dispatchVars == <<d_pc, d_config, d_content, d_handler, d_network, d_result>>
driverVars == <<config, cwd_is_root, source_text, fs_files, fs_text, run, r_pc, r_pos,
                r_log, network, last, prev>>
vars == <<fenceVars, noticeVars, integrityVars, dispatchVars, driverVars>>

---------------------------------------------------------------------------
(* Bounds *)
MaxSegs == 4        \* segments a Code-Fence Protector input is made of
MaxNoticeSegs == 4  \* segments a Notice Inserter input is made of
MaxCheckSegs == 2   \* segments an Integrity Checker input is made of
MaxRuns == 2        \* calls of on_pre_build in one behaviour

---------------------------------------------------------------------------
(* Lexical units *)
FENCE == "FENCE"
NL == "\n"
DASHES == "---"
LowerLetters == {"a", "b"}

Min(S) == CHOOSE m \in S : \A n \in S : m <= n

RECURSIVE Flatten(_)
Flatten(ss) == IF ss = <<>> THEN <<>> ELSE Head(ss) \o Flatten(Tail(ss))

\* all sequences over S of length 0..n
SeqsUpTo(S, n) == UNION {[1..k -> S] : k \in 0..n}

\* x occurs in t as a contiguous run starting at i
OccursAt(t, x, i) ==
    /\ i >= 1
    /\ i + Len(x) - 1 <= Len(t)
    /\ SubSeq(t, i, i + Len(x) - 1) = x

Contains(t, x) == \E i \in 1..Len(t) : OccursAt(t, x, i)

---------------------------------------------------------------------------
(* The components at rest: a specification of one component holds the others
   in these states. *)

\* an optional list argument: None (or left out), or a list
NoneGiven == [supplied |-> FALSE, list |-> <<>>]
Given(list) == [supplied |-> TRUE, list |-> list]

IdleFence ==
    /\ f_pc = "idle"
    /\ f_content = <<>>
    /\ f_protected = <<>>
    /\ f_blocks = <<>>
    /\ f_result = <<>>
    /\ f_code_blocks = NoneGiven
    /\ f_error = ""

IdleNotice ==
    /\ n_pc = "idle"
    /\ n_content = <<>>
    /\ n_theme = "default"
    /\ n_source_lang = "en"
    /\ n_target_lang = "de"
    /\ n_result = <<>>

IdleIntegrity ==
    /\ c_pc = "idle"
    /\ c_source = <<>>
    /\ c_translated = <<>>
    /\ c_warned = FALSE

IdleDispatch ==
    /\ d_pc = "idle"
    /\ d_config = [translation_service |-> "saia", translation_service_api_key |-> ""]
    /\ d_content = <<>>
    /\ d_handler = "none"
    /\ d_network = <<>>
    /\ d_result = <<>>

IdleDriver ==
    /\ config = [translation_service |-> "saia", translation_service_api_key |-> "",
                 theme_name |-> "mkdocs"]
    /\ cwd_is_root = TRUE
    /\ source_text = <<>>
    /\ fs_files = {}
    /\ fs_text = <<>>
    /\ run = 0
    /\ r_pc = "idle"
    /\ r_pos = 0
    /\ r_log = <<>>
    /\ network = <<>>
    /\ last = <<>>
    /\ prev = [ran |-> FALSE, clean |-> FALSE, skipped |-> {}]

---------------------------------------------------------------------------
(* 4.1 Code-Fence Protector *)

\* f"CODEBLOCK_{i}_PLACEHOLDER"
Placeholder(i) == "CODEBLOCK_" \o ToString(i) \o "_PLACEHOLDER"

\* first position >= j that holds no lowercase letter: where the greedy
\* [a-z]* of the pattern stops
RECURSIVE LangEnd(_, _)
LangEnd(text, j) ==
    IF j <= Len(text) /\ text[j] \in LowerLetters THEN LangEnd(text, j + 1) ELSE j

\* Mutant of pattern_match_end: the closing fence is searched greedily, so
\* the match runs to the last closing fence of the text.
pattern_match_end_greedy(text, i) ==
    IF i <= Len(text) /\ text[i] = FENCE
    THEN LET j == LangEnd(text, i + 1)
             closers == {k \in (j + 1)..(Len(text) - 1) :
                            text[k] = NL /\ text[k + 1] = FENCE}
         IN  IF j <= Len(text) /\ text[j] = NL /\ closers # {}
             THEN (CHOOSE m \in closers : \A n \in closers : m >= n) + 1
             ELSE 0
    ELSE 0

\* r"```[a-z]*\n[\s\S]*?\n```" tried at position i: the position of the last
\* unit of the match, or 0 when the pattern does not match at i.  The lazy
\* [\s\S]*? stops at the first newline that a fence follows.
pattern_match_end(text, i) ==
    IF i <= Len(text) /\ text[i] = FENCE
    THEN LET j == LangEnd(text, i + 1)
             closers == {k \in (j + 1)..(Len(text) - 1) :
                            text[k] = NL /\ text[k + 1] = FENCE}
         IN  IF j <= Len(text) /\ text[j] = NL /\ closers # {}
             THEN Min(closers) + 1
             ELSE 0
    ELSE 0

\* Mutant of replace_code_block: every block gets the placeholder of index 0.
replace_code_block_index0(code_blocks, block) ==
    [token |-> Placeholder(0), code_blocks |-> Append(code_blocks, block)]

\* the callback of re.sub: appends the match to code_blocks and returns the
\* placeholder that carries the block's index
replace_code_block(code_blocks, block) ==
    [token |-> Placeholder(Len(Append(code_blocks, block)) - 1),
     code_blocks |-> Append(code_blocks, block)]

\* re.sub(pattern, replace_code_block, content): leftmost matches, left to
\* right, never overlapping
RECURSIVE re_sub(_, _, _, _)
re_sub(content, i, out, code_blocks) ==
    IF i > Len(content)
    THEN <<out, code_blocks>>
    ELSE LET e == pattern_match_end(content, i)
         IN  IF e = 0
             THEN re_sub(content, i + 1, Append(out, content[i]), code_blocks)
             ELSE LET r == replace_code_block(code_blocks, SubSeq(content, i, e))
                  IN  re_sub(content, e + 1, Append(out, r.token), r.code_blocks)

\* protect_code_blocks(content) -> (content_with_placeholders, code_blocks)
protect_code_blocks(content) == re_sub(content, 1, <<>>, <<>>)

\* content.replace(token, block): every occurrence of the one-unit token
RECURSIVE str_replace(_, _, _)
str_replace(content, token, block) ==
    IF content = <<>> THEN <<>>
    ELSE (IF Head(content) = token THEN block ELSE <<Head(content)>>)
             \o str_replace(Tail(content), token, block)

\* for i, block in enumerate(code_blocks): content = content.replace(...)
RECURSIVE restore_loop(_, _, _)
restore_loop(content, code_blocks, i) ==
    IF i >= Len(code_blocks) THEN content
    ELSE restore_loop(str_replace(content, Placeholder(i), code_blocks[i + 1]),
                      code_blocks, i + 1)

\* restore_code_blocks(content, code_blocks)
restore_code_blocks(content, code_blocks) == restore_loop(content, code_blocks, 0)

\* code_block_transform(content, mode="protect")
code_block_transform_protect(content) == re_sub(content, 1, <<>>, <<>>)

\* code_block_transform(content, code_blocks, mode="restore"), code_blocks given
code_block_transform_restore(content, code_blocks) ==
    restore_loop(content, code_blocks, 0)

\* Mutant of code_block_transform_optional: a missing list counts as an
\* empty one.
code_block_transform_lenient(content, code_blocks) ==
    [raised |-> "", text |-> code_block_transform_restore(content, code_blocks.list)]

\* code_block_transform(content, code_blocks=None, mode="restore"):
\* "if code_blocks is None: raise ValueError(...)"
code_block_transform_optional(content, code_blocks) ==
    IF ~ code_blocks.supplied
    THEN [raised |-> "ValueError: code_blocks must be provided in restore mode",
          text |-> <<>>]
    ELSE [raised |-> "", text |-> code_block_transform_restore(content, code_blocks.list)]

\* restore_code_blocks(content, code_blocks) with None for code_blocks:
\* enumerate(None) raises TypeError before anything is replaced
restore_code_blocks_optional(content, code_blocks) ==
    IF ~ code_blocks.supplied
    THEN [raised |-> "TypeError: 'NoneType' object is not iterable", text |-> <<>>]
    ELSE [raised |-> "", text |-> restore_code_blocks(content, code_blocks.list)]

---------------------------------------------------------------------------
(* Inputs of the Code-Fence Protector *)

FenceSegments ==
    { <<FENCE>>, <<NL>>, <<"a">>, <<"X">>,
      <<Placeholder(0)>>, <<Placeholder(1)>>,
      <<FENCE, NL, NL, FENCE>>,
      <<FENCE, "a", NL, "X", NL, FENCE>>,
      <<FENCE, NL, Placeholder(1), NL, FENCE>> }

FenceTexts == {Flatten(ss) : ss \in SeqsUpTo(FenceSegments, MaxSegs)}

InitFence ==
    /\ IdleNotice
    /\ IdleIntegrity
    /\ IdleDispatch
    /\ IdleDriver
    /\ f_pc = "input"
    /\ f_content \in FenceTexts
    /\ f_protected = <<>>
    /\ f_blocks = <<>>
    /\ f_result = <<>>
    /\ f_code_blocks = NoneGiven
    /\ f_error = ""

\* protect(text) through protect_code_blocks
ProtectHelper ==
    /\ f_pc = "input"
    /\ LET r == protect_code_blocks(f_content)
       IN  /\ f_protected' = r[1]
           /\ f_blocks' = r[2]
    /\ f_pc' = "protected"
    /\ UNCHANGED <<f_content, f_result, f_code_blocks, f_error,
                   noticeVars, dispatchVars, driverVars, integrityVars>>

\* protect(text) through code_block_transform(mode="protect")
ProtectTransform ==
    /\ f_pc = "input"
    /\ LET r == code_block_transform_protect(f_content)
       IN  /\ f_protected' = r[1]
           /\ f_blocks' = r[2]
    /\ f_pc' = "protected"
    /\ UNCHANGED <<f_content, f_result, f_code_blocks, f_error,
                   noticeVars, dispatchVars, driverVars, integrityVars>>

\* restore(protected, blocks) through restore_code_blocks
RestoreHelper ==
    /\ f_pc = "protected"
    /\ f_result' = restore_code_blocks(f_protected, f_blocks)
    /\ f_pc' = "restored"
    /\ f_code_blocks' = Given(f_blocks)
    /\ f_error' = ""
    /\ UNCHANGED <<f_content, f_protected, f_blocks,
                   noticeVars, dispatchVars, driverVars, integrityVars>>

\* restore(protected, blocks) through code_block_transform(mode="restore")
RestoreTransform ==
    /\ f_pc = "protected"
    /\ f_result' = code_block_transform_restore(f_protected, f_blocks)
    /\ f_pc' = "restored"
    /\ f_code_blocks' = Given(f_blocks)
    /\ f_error' = ""
    /\ UNCHANGED <<f_content, f_protected, f_blocks,
                   noticeVars, dispatchVars, driverVars, integrityVars>>

\* restore_code_blocks(protected, None): the call ends with what
\* restore_code_blocks_optional gives, a text or an exception
RestoreHelperNoBlocks ==
    /\ f_pc = "protected"
    /\ LET r == restore_code_blocks_optional(f_protected, NoneGiven)
       IN  /\ f_pc' = IF r.raised = "" THEN "restored" ELSE "raised"
           /\ f_result' = r.text
           /\ f_error' = r.raised
    /\ f_code_blocks' = NoneGiven
    /\ UNCHANGED <<f_content, f_protected, f_blocks,
                   noticeVars, dispatchVars, driverVars, integrityVars>>

\* code_block_transform(protected, mode="restore"): code_blocks keeps its
\* default None
RestoreTransformNoBlocks ==
    /\ f_pc = "protected"
    /\ LET r == code_block_transform_optional(f_protected, NoneGiven)
       IN  /\ f_pc' = IF r.raised = "" THEN "restored" ELSE "raised"
           /\ f_result' = r.text
           /\ f_error' = r.raised
    /\ f_code_blocks' = NoneGiven
    /\ UNCHANGED <<f_content, f_protected, f_blocks,
                   noticeVars, dispatchVars, driverVars, integrityVars>>

NextFence ==
    \/ ProtectHelper
    \/ ProtectTransform
    \/ RestoreHelper
    \/ RestoreTransform
    \/ RestoreHelperNoBlocks
    \/ RestoreTransformNoBlocks

SpecFence == InitFence /\ [][NextFence]_vars

---------------------------------------------------------------------------
(* 4.3 Notice Inserter *)

\* str.upper() on the language codes of the model
Upper(lang) ==
    CASE lang = "en" -> "EN"
      [] lang = "de" -> "DE"
      [] lang = "Fr" -> "FR"
      [] OTHER -> lang

\* notice_formats: theme -> template, rendered by str.format
notice_formats(theme_name, source_lang, target_lang) ==
    CASE theme_name = "material" ->
            "\n!!! note\n    This document was automatically translated from "
                \o source_lang \o " to " \o target_lang \o ".\n\n"
      [] theme_name = "default" ->
            "\n>NOTE:\nThis document was automatically translated from "
                \o source_lang \o " to " \o target_lang \o ".\n\n"

RegisteredThemes == {"material", "default"}

\* Mutant of translation_notice: a theme that is not registered gets the
\* first template of the mapping, and the codes are used as given.
translation_notice_first_template(theme_name, source_lang, target_lang) ==
    notice_formats(IF theme_name \in RegisteredThemes THEN theme_name ELSE "material",
                   source_lang, target_lang)

\* notice_formats.get(theme_name, notice_formats["default"]).format(
\*     source_lang=source_lang.upper(), target_lang=target_lang.upper())
translation_notice(theme_name, source_lang, target_lang) ==
    notice_formats(IF theme_name \in RegisteredThemes THEN theme_name ELSE "default",
                   Upper(source_lang), Upper(target_lang))

\* ^ under re.MULTILINE: the start of the text or the unit after a newline
AtLineStart(content, i) == i = 1 \/ content[i - 1] = NL

\* r"(^# .+\n)" at position i: the position of the newline that ends the
\* match, or 0.  "." matches no newline, so ".+" is the rest of the line and
\* has to be followed by a newline.
heading_match_end(content, i) ==
    IF /\ AtLineStart(content, i)
       /\ i + 3 <= Len(content)
       /\ content[i] = "#"
       /\ content[i + 1] = " "
       /\ content[i + 2] # NL
    THEN LET ends == {e \in (i + 3)..Len(content) : content[e] = NL}
         IN  IF ends = {} THEN 0 ELSE Min(ends)
    ELSE 0

\* re.search(r"(^# .+\n)", content, re.MULTILINE).end(1), or 0 for no match
heading_match(content) ==
    LET starts == {i \in 1..Len(content) : heading_match_end(content, i) # 0}
    IN  IF starts = {} THEN 0 ELSE heading_match_end(content, Min(starts))

\* Mutant of frontmatter_match: the closing line is searched greedily, so the
\* block runs to the last line of three dashes.
frontmatter_match_greedy(content) ==
    IF Len(content) >= 2 /\ content[1] = DASHES /\ content[2] = NL
    THEN LET ends == {k \in 3..(Len(content) - 2) :
                         /\ content[k] = NL
                         /\ content[k + 1] = DASHES
                         /\ content[k + 2] = NL}
         IN  IF ends = {} THEN 0 ELSE (CHOOSE m \in ends : \A n \in ends : m >= n) + 2
    ELSE 0

\* re.match(r"^(---\n.*?\n---\n)", content, re.DOTALL): the length of
\* group 1, or 0 for no match
frontmatter_match(content) ==
    IF Len(content) >= 2 /\ content[1] = DASHES /\ content[2] = NL
    THEN LET ends == {k \in 3..(Len(content) - 2) :
                         /\ content[k] = NL
                         /\ content[k + 1] = DASHES
                         /\ content[k + 2] = NL}
         IN  IF ends = {} THEN 0 ELSE Min(ends) + 2
    ELSE 0

\* Mutant of InsertAt: the rest of the document is taken one unit too late.
InsertAt_drops_unit(content, end, notice) ==
    SubSeq(content, 1, end) \o <<notice>> \o SubSeq(content, end + 2, Len(content))

\* content[:end] + translation_notice + content[end:]
InsertAt(content, end, notice) ==
    SubSeq(content, 1, end) \o <<notice>> \o SubSeq(content, end + 1, Len(content))

\* helpers.add_translation_notice
add_translation_notice(content, source_lang, target_lang, theme_name) ==
    LET notice == translation_notice(theme_name, source_lang, target_lang)
        h == heading_match(content)
        fm == frontmatter_match(content)
    IN  IF h # 0 THEN InsertAt(content, h, notice)
        ELSE IF fm # 0 THEN InsertAt(content, fm, notice)
        ELSE <<notice>> \o content

NoticeSegments ==
    { <<"#">>, <<" ">>, <<NL>>, <<"X">>, <<DASHES>>,
      <<"#", " ", "X", NL>>,
      <<"#", " ", "X">>,
      <<"#", "#", " ", "X", NL>>,
      <<DASHES, NL, "X", NL, DASHES, NL>> }

NoticeTexts == {Flatten(ss) : ss \in SeqsUpTo(NoticeSegments, MaxNoticeSegs)}

Themes == {"material", "default", "readthedocs"}
SourceLangs == {"en"}
TargetLangs == {"de", "Fr"}

InitNotice ==
    /\ IdleFence
    /\ IdleIntegrity
    /\ IdleDispatch
    /\ IdleDriver
    /\ n_pc = "input"
    /\ n_content \in NoticeTexts
    /\ n_theme \in Themes
    /\ n_source_lang \in SourceLangs
    /\ n_target_lang \in TargetLangs
    /\ n_result = <<>>

\* insert(translated_text, source_lang, target_lang, theme)
Insert ==
    /\ n_pc = "input"
    /\ n_result' = add_translation_notice(n_content, n_source_lang, n_target_lang, n_theme)
    /\ n_pc' = "inserted"
    /\ UNCHANGED <<n_content, n_theme, n_source_lang, n_target_lang,
                   fenceVars, dispatchVars, driverVars, integrityVars>>

NextNotice == Insert

SpecNotice == InitNotice /\ [][NextNotice]_vars

---------------------------------------------------------------------------
(* 4.2 Integrity Checker *)

Whitespace == {" ", NL}

\* r"^#+\s" at position i (re.MULTILINE)
header_match(t, i) ==
    /\ AtLineStart(t, i)
    /\ t[i] = "#"
    /\ \E w \in (i + 1)..Len(t) :
          /\ t[w] \in Whitespace
          /\ \A m \in i..(w - 1) : t[m] = "#"

\* len(re.findall(r"^#+\s", text, re.MULTILINE))
header_count(t) == Cardinality({i \in 1..Len(t) : header_match(t, i)})

\* len(re.findall(r"```", text))
fence_count(t) == Cardinality({i \in 1..Len(t) : t[i] = FENCE})

NoNewline(t, from, to) == \A m \in from..to : t[m] # NL

\* r"\[.+?\]\(.+?\)" at position i: the position of the closing ")", or 0
link_match_end(t, i) ==
    IF i <= Len(t) /\ t[i] = "["
    THEN LET closes(j) == {k \in (j + 3)..Len(t) :
                              t[k] = ")" /\ NoNewline(t, j + 2, k - 1)}
             mids == {j \in (i + 2)..(Len(t) - 1) :
                         /\ t[j] = "]"
                         /\ t[j + 1] = "("
                         /\ NoNewline(t, i + 1, j - 1)
                         /\ closes(j) # {}}
         IN  IF mids = {} THEN 0 ELSE Min(closes(Min(mids)))
    ELSE 0

\* len(re.findall(r"\[.+?\]\(.+?\)", text)): leftmost matches, not overlapping
RECURSIVE link_count_from(_, _)
link_count_from(t, i) ==
    IF i > Len(t) THEN 0
    ELSE LET e == link_match_end(t, i)
         IN  IF e = 0 THEN link_count_from(t, i + 1)
             ELSE 1 + link_count_from(t, e + 1)

\* the Element Count Snapshot of a text
element_counts(t) ==
    [headers |-> header_count(t),
     code_blocks |-> fence_count(t) \div 2,
     links |-> link_count_from(t, 1)]

\* expected_elements != actual_elements: the warning is logged
integrity_mismatch(source, translated) ==
    element_counts(source) # element_counts(translated)

\* Mutant of adjusted_counts: the links are left out of the snapshot.
adjusted_counts_without_links(t) ==
    [headers |-> header_count(t) \div 1,
     code_blocks |-> fence_count(t) \div 2]

\* the loop over element_definitions of check_markdown_integrity for one
\* text: len(re.findall(pattern, text, flags)) // divisor for every key
adjusted_counts(t) ==
    [headers |-> header_count(t) \div 1,
     code_blocks |-> fence_count(t) \div 2,
     links |-> link_count_from(t, 1) \div 1]

\* check_markdown_integrity(source, translated, logger): TRUE when the
\* warning "Possible markdown corruption detected" is logged
check_markdown_integrity(source, translated) ==
    LET expected_elements == adjusted_counts(source)
        actual_elements == adjusted_counts(translated)
    IN  expected_elements # actual_elements

CheckSegments ==
    { <<"#", " ", "a", NL>>,
      <<"#">>,
      <<"a", NL>>,
      <<FENCE, NL>>,
      <<FENCE, NL, "a", NL, FENCE, NL>>,
      <<"[", "a", "]", "(", "a", ")">>,
      <<"[", "a", "]">> }

CheckTexts == {Flatten(ss) : ss \in SeqsUpTo(CheckSegments, MaxCheckSegs)}

InitIntegrity ==
    /\ IdleFence
    /\ IdleNotice
    /\ IdleDispatch
    /\ IdleDriver
    /\ c_pc = "input"
    /\ c_source \in CheckTexts
    /\ c_translated \in CheckTexts
    /\ c_warned = FALSE

\* check(source_text, translated_text) through check_markdown_integrity
CheckHelper ==
    /\ c_pc = "input"
    /\ c_warned' = check_markdown_integrity(c_source, c_translated)
    /\ c_pc' = "checked"
    /\ UNCHANGED <<c_source, c_translated, fenceVars, noticeVars, dispatchVars, driverVars>>

\* the same comparison as translate_with_saia makes it on its own
CheckInline ==
    /\ c_pc = "input"
    /\ c_warned' = integrity_mismatch(c_source, c_translated)
    /\ c_pc' = "checked"
    /\ UNCHANGED <<c_source, c_translated, fenceVars, noticeVars, dispatchVars, driverVars>>

NextIntegrity == CheckHelper \/ CheckInline

SpecIntegrity == InitIntegrity /\ [][NextIntegrity]_vars

---------------------------------------------------------------------------
(* 4.4 Translation Dispatcher and the backend handlers *)

\* str.lower() on the service names of the model
Lower(name) ==
    CASE name = "SAIA" -> "saia"
      [] name = "DeepL" -> "deepl"
      [] name = "Simpleen" -> "simpleen"
      [] name = "Google" -> "google"
      [] OTHER -> name

\* the modules of the package translation_services, each defining
\* translate_with_<name>
RegisteredServices == {"saia", "deepl", "simpleen"}

\* content.replace(old, ""): every occurrence of a run of units, left to right
RECURSIVE remove_all(_, _)
remove_all(t, old) ==
    IF Len(t) < Len(old) \/ old = <<>> THEN t
    ELSE IF SubSeq(t, 1, Len(old)) = old
         THEN remove_all(SubSeq(t, Len(old) + 1, Len(t)), old)
         ELSE <<Head(t)>> \o remove_all(Tail(t), old)

\* re.search(r"<think>(.*?)</think>", text, re.DOTALL).group(0), or <<>>
reasoning_match(t) ==
    LET opens == {i \in 1..Len(t) :
                     t[i] = "<think>" /\ \E j \in (i + 1)..Len(t) : t[j] = "</think>"}
    IN  IF opens = {} THEN <<>>
        ELSE LET i == Min(opens)
                 j == Min({k \in (i + 1)..Len(t) : t[k] = "</think>"})
             IN  SubSeq(t, i, j)

\* str.strip()
RECURSIVE lstrip(_)
lstrip(t) == IF t # <<>> /\ Head(t) \in Whitespace THEN lstrip(Tail(t)) ELSE t

RECURSIVE rstrip(_)
rstrip(t) ==
    IF t # <<>> /\ t[Len(t)] \in Whitespace THEN rstrip(SubSeq(t, 1, Len(t) - 1)) ELSE t

strip(t) == rstrip(lstrip(t))

\* markdown(content, extensions=[..., "fenced_code", ...]): a fenced block
\* becomes a <pre><code> element that holds the block's lines
RECURSIVE markdown(_, _)
markdown(content, i) ==
    IF i > Len(content) THEN <<>>
    ELSE LET e == pattern_match_end(content, i)
         IN  IF e = 0 THEN <<content[i]>> \o markdown(content, i + 1)
             ELSE LET open == LangEnd(content, i + 1)
                  IN  <<"<pre><code>">> \o SubSeq(content, open + 1, e - 2)
                         \o <<"</code></pre>">> \o markdown(content, e + 1)

\* markdownify(html): a <pre><code> element becomes a fenced block; a tag
\* markdownify has no conversion for is dropped and its content is kept
RECURSIVE markdownify(_)
markdownify(html) ==
    IF html = <<>> THEN <<>>
    ELSE IF Head(html) = "<pre><code>" THEN <<FENCE, NL>> \o markdownify(Tail(html))
    ELSE IF Head(html) = "</code></pre>" THEN <<NL, FENCE>> \o markdownify(Tail(html))
    ELSE IF Head(html) \in {"<think>", "</think>"} THEN markdownify(Tail(html))
    ELSE <<Head(html)>> \o markdownify(Tail(html))

\* What a handler does before its network call: the request it hands to the
\* provider, or the exception it raises before any request.
\*   saia      protects the code blocks and sends the text with placeholders
\*   deepl     converts to HTML; deepl.Translator(auth_key) raises ValueError
\*             on an empty key
\*   simpleen  sends the content as it is
handler_request(service, cfg, content, source_lang, target_lang) ==
    CASE service = "saia" ->
            [raised |-> FALSE, service |-> service,
             source_lang |-> Upper(source_lang), target_lang |-> Upper(target_lang),
             text |-> re_sub(content, 1, <<>>, <<>>)[1]]
      [] service = "deepl" ->
            [raised |-> cfg.translation_service_api_key = "", service |-> service,
             source_lang |-> Upper(source_lang), target_lang |-> Upper(target_lang),
             text |-> markdown(content, 1)]
      [] service = "simpleen" ->
            [raised |-> FALSE, service |-> service,
             source_lang |-> Upper(source_lang), target_lang |-> Upper(target_lang),
             text |-> content]

\* Mutant of saia_result: a mismatch of the element counts makes the handler
\* return the empty result.
saia_result_blocking(content, reply) ==
    IF reply.error \/ reply.none
    THEN [raised |-> FALSE, text |-> <<>>, warned |-> FALSE]
    ELSE LET code_blocks == re_sub(content, 1, <<>>, <<>>)[2]
             without == remove_all(reply.text, reasoning_match(reply.text))
             translated_text == restore_loop(without, code_blocks, 0)
         IN  [raised |-> FALSE,
              text |-> IF integrity_mismatch(content, translated_text)
                       THEN <<>> ELSE strip(translated_text),
              warned |-> integrity_mismatch(content, translated_text)]

\* translate_with_saia after the call: reply.error is an exception of the
\* call, reply.none a message without content
saia_result(content, reply) ==
    IF reply.error \/ reply.none
    THEN [raised |-> FALSE, text |-> <<>>, warned |-> FALSE]
    ELSE LET code_blocks == re_sub(content, 1, <<>>, <<>>)[2]
             without == remove_all(reply.text, reasoning_match(reply.text))
             translated_text == restore_loop(without, code_blocks, 0)
         IN  [raised |-> FALSE,
              text |-> strip(translated_text),
              warned |-> integrity_mismatch(content, translated_text)]

\* translate_with_deepl after the call
deepl_result(content, reply) ==
    IF reply.error
    THEN [raised |-> FALSE, text |-> <<>>, warned |-> FALSE]
    ELSE [raised |-> FALSE, text |-> markdownify(reply.text), warned |-> FALSE]

\* translate_with_simpleen after the call: a RequestException is raised again
\* as an Exception
simpleen_result(content, reply) ==
    IF reply.error
    THEN [raised |-> TRUE, text |-> <<>>, warned |-> FALSE]
    ELSE [raised |-> FALSE, text |-> reply.text, warned |-> FALSE]

handler_result(service, content, reply) ==
    CASE service = "saia" -> saia_result(content, reply)
      [] service = "deepl" -> deepl_result(content, reply)
      [] service = "simpleen" -> simpleen_result(content, reply)

\* Mutant of resolve_handler: the service name is used as written
resolve_handler_case_sensitive(translation_service) ==
    IF translation_service \in RegisteredServices
    THEN translation_service
    ELSE "ValueError"

\* translate_content up to the call of the handler: importlib.import_module
\* and getattr on the lower-cased name; "ValueError" when there is no such
\* module
resolve_handler(translation_service) ==
    IF Lower(translation_service) \in RegisteredServices
    THEN Lower(translation_service)
    ELSE "ValueError"

\* the provider turns every letter it translates into another letter
RECURSIVE Translated(_)
Translated(t) ==
    IF t = <<>> THEN <<>>
    ELSE <<IF Head(t) = "a" THEN "b" ELSE Head(t)>> \o Translated(Tail(t))

\* What a provider can answer to a request: an error of the remote call, or
\* a text
Replies(request) ==
    { [error |-> TRUE, none |-> FALSE, text |-> <<>>],
      [error |-> FALSE, none |-> TRUE, text |-> <<>>],
      [error |-> FALSE, none |-> FALSE, text |-> <<>>],
      [error |-> FALSE, none |-> FALSE, text |-> Translated(request.text)],
      [error |-> FALSE, none |-> FALSE,
       text |-> <<"<think>", "a", "</think>", NL>> \o Translated(request.text) \o <<NL>>],
      [error |-> FALSE, none |-> FALSE,
       text |-> <<"<think>", "a", "</think>", "<think>", "b", "</think>", NL>>
                   \o Translated(request.text)],
      [error |-> FALSE, none |-> FALSE,
       text |-> <<"#", " ", "b", NL>> \o Translated(request.text)] }

---------------------------------------------------------------------------
(* Documents, configurations *)

DocCode == <<"#", " ", "a", NL, "a", NL, FENCE, "a", NL, "X", NL, FENCE, NL>>
DocFront == <<DASHES, NL, "a", NL, DASHES, NL, "a", NL>>
DocFrontHeading == <<DASHES, NL, "a", NL, DASHES, NL, "#", " ", "a", NL, "a">>
DocPlain == <<"a", " ", "a">>
Docs == {DocCode, DocFront, DocFrontHeading, DocPlain}

ServiceNames == {"saia", "deepl", "simpleen", "SAIA", "DeepL", "google", "Google"}
ApiKeys == {"", "key"}

---------------------------------------------------------------------------
(* One call of translate_content *)

NoResult == [kind |-> "none", error |-> "", text |-> <<>>, warned |-> FALSE,
             answered |-> FALSE, response |-> <<>>]

InitDispatch ==
    /\ IdleFence
    /\ IdleIntegrity
    /\ IdleNotice
    /\ IdleDriver
    /\ d_pc = "call"
    /\ d_config \in [translation_service : ServiceNames,
                     translation_service_api_key : ApiKeys]
    /\ d_content \in Docs
    /\ d_handler = "none"
    /\ d_network = <<>>
    /\ d_result = NoResult

\* translate_content(config, content, "en", "de", logger) up to the network
\* call of the handler
Dispatch ==
    /\ d_pc = "call"
    /\ LET h == resolve_handler(d_config.translation_service)
       IN  IF h = "ValueError"
           THEN /\ d_pc' = "raised"
                /\ d_result' = [NoResult EXCEPT !.kind = "raised",
                                   !.error = "ValueError: Unsupported translation service"]
                /\ UNCHANGED <<d_handler, d_network>>
           ELSE LET req == handler_request(h, d_config, d_content, "en", "de")
                IN  /\ d_handler' = h
                    /\ IF req.raised
                       THEN /\ d_pc' = "raised"
                            /\ d_result' = [NoResult EXCEPT !.kind = "raised",
                                               !.error = "ValueError: auth_key must not be empty"]
                            /\ UNCHANGED d_network
                       ELSE /\ d_pc' = "in_flight"
                            /\ d_network' = Append(d_network, req)
                            /\ UNCHANGED d_result
    /\ UNCHANGED <<d_config, d_content, fenceVars, noticeVars, driverVars, integrityVars>>

\* the provider answers and the handler returns or raises
DispatchReply ==
    /\ d_pc = "in_flight"
    /\ \E reply \in Replies(d_network[Len(d_network)]) :
          LET res == handler_result(d_handler, d_content, reply)
          IN  /\ d_pc' = IF res.raised THEN "raised" ELSE "returned"
              /\ d_result' = [kind |-> IF res.raised THEN "raised" ELSE "returned",
                              error |-> IF res.raised THEN "Exception" ELSE "",
                              text |-> res.text,
                              warned |-> res.warned,
                              answered |-> ~ reply.error /\ ~ reply.none,
                              response |-> reply.text]
    /\ UNCHANGED <<d_config, d_content, d_handler, d_network,
                   fenceVars, noticeVars, driverVars, integrityVars>>

NextDispatch == Dispatch \/ DispatchReply

SpecDispatch == InitDispatch /\ [][NextDispatch]_vars

---------------------------------------------------------------------------
(* Sync Driver: TranslatePlugin *)

\* the i18n plugin's languages
default_language == "en"
all_languages == <<"en", "de">>

\* [lang for lang in all_languages if lang != default_language]
target_translations ==
    LET keep(l) == l # default_language IN SelectSeq(all_languages, keep)

\* the source files <stem>.en.md of the docs tree, in the order of rglob
Stems == <<"index", "guide">>

\* the (source file, target language) pairs in the order of the two loops
PairSeq ==
    [k \in 1..(Len(Stems) * Len(target_translations)) |->
        <<Stems[((k - 1) \div Len(target_translations)) + 1],
          target_translations[((k - 1) % Len(target_translations)) + 1]>>]

Pairs == {PairSeq[k] : k \in 1..Len(PairSeq)}

\* target_filepath.relative_to(docs_dir.parent).exists(): the path is
\* relative, so it names the target only when the working directory is the
\* parent of docs_dir; the model has no file at that path elsewhere
target_exists(cwd_root, files, target) == cwd_root /\ target \in files

\* TranslatePlugin.add_translation_notice: after a leading frontmatter
\* block, else at the top
plugin_add_translation_notice(theme_name, content, source_lang, target_lang) ==
    LET notice == notice_formats(IF theme_name = "material" THEN "material" ELSE "default",
                                 Upper(source_lang), Upper(target_lang))
        fm == frontmatter_match(content)
    IN  IF fm # 0 THEN InsertAt(content, fm, notice) ELSE <<notice>> \o content

\* Mutant of is_translated: an empty result is written as well
is_translated_always(translated_content) == TRUE

\* "if translated_content:" a non-empty string
is_translated(translated_content) == translated_content # <<>>

\* what a run did with a pair; missing: the target file was absent from the
\* docs tree when the pair was examined
Untouched == [state |-> "pending", missing |-> FALSE, calls |-> 0, warnings |-> 0]
NoLast == [pair |-> <<"", "">>, service |-> "", remote_error |-> FALSE,
           outcome |-> "none", returned |-> <<>>, warned |-> FALSE,
           answered |-> FALSE, response |-> <<>>]

PluginThemes == {"material", "mkdocs"}

InitDriver ==
    /\ IdleFence
    /\ IdleIntegrity
    /\ IdleNotice
    /\ IdleDispatch
    /\ config \in [translation_service : RegisteredServices,
                   translation_service_api_key : ApiKeys,
                   theme_name : PluginThemes]
    /\ cwd_is_root \in BOOLEAN
    /\ source_text \in {[index |-> DocCode, guide |-> DocFront],
                        [index |-> DocFrontHeading, guide |-> DocPlain]}
    /\ fs_files \in SUBSET {PairSeq[1], PairSeq[Len(PairSeq)]}
    /\ fs_text = [p \in Pairs |-> IF p \in fs_files THEN <<"X">> ELSE <<>>]
    /\ run = 0
    /\ r_pc = "idle"
    /\ r_pos = 0
    /\ r_log = [p \in Pairs |-> Untouched]
    /\ network = <<>>
    /\ last = NoLast
    /\ prev = [ran |-> FALSE, clean |-> FALSE, skipped |-> {}]

\* on_startup(command) and on_pre_build up to the first file: nothing is done
\* during serve or for a language that is not the default language
StartRun ==
    /\ r_pc \in {"idle", "done", "aborted"}
    /\ run < MaxRuns
    /\ \E command \in {"build", "serve"} : \E current_language \in {"en", "de"} :
          /\ r_pc' = IF command = "serve" \/ current_language # default_language
                     THEN "done" ELSE "loop"
    /\ run' = run + 1
    /\ r_pos' = 1
    /\ prev' = [ran |-> r_pc = "done" /\ r_pos > Len(PairSeq),
                 clean |-> /\ r_pc = "done"
                           /\ r_pos > Len(PairSeq)
                           /\ \A p \in Pairs : r_log[p].state \in {"existing", "written"},
                 skipped |-> {p \in Pairs : r_log[p].state = "skipped"}]
    /\ r_log' = [p \in Pairs |-> Untouched]
    /\ network' = <<>>
    /\ last' = NoLast
    /\ UNCHANGED <<config, cwd_is_root, source_text, fs_files, fs_text,
                   fenceVars, noticeVars, dispatchVars, integrityVars>>

\* the target of the pair exists: "Translation file already exists"
SkipExisting ==
    /\ r_pc = "loop"
    /\ r_pos <= Len(PairSeq)
    /\ target_exists(cwd_is_root, fs_files, PairSeq[r_pos])
    /\ r_log' = [r_log EXCEPT ![PairSeq[r_pos]].state = "existing"]
    /\ r_pos' = r_pos + 1
    /\ UNCHANGED <<config, cwd_is_root, source_text, fs_files, fs_text, run, r_pc,
                   network, last, prev, fenceVars, noticeVars, dispatchVars, integrityVars>>

\* the target is missing: translate_content is called and the handler runs up
\* to its network call, or raises before it
BeginTranslate ==
    /\ r_pc = "loop"
    /\ r_pos <= Len(PairSeq)
    /\ ~ target_exists(cwd_is_root, fs_files, PairSeq[r_pos])
    /\ LET pair == PairSeq[r_pos]
           h == resolve_handler(config.translation_service)
           req == handler_request(h, config, source_text[pair[1]],
                                  default_language, pair[2])
       IN  IF req.raised
           THEN /\ r_pc' = "aborted"
                /\ r_log' = [r_log EXCEPT ![pair].state = "raised",
                                          ![pair].missing = pair \notin fs_files]
                /\ last' = [NoLast EXCEPT !.pair = pair, !.service = h,
                                          !.outcome = "raised"]
                /\ UNCHANGED network
           ELSE /\ r_pc' = "in_flight"
                /\ r_log' = [r_log EXCEPT ![pair].state = "translating",
                                          ![pair].missing = pair \notin fs_files,
                                          ![pair].calls = @ + 1]
                /\ network' = Append(network, [pair |-> pair, request |-> req])
                /\ UNCHANGED last
    /\ UNCHANGED <<config, cwd_is_root, source_text, fs_files, fs_text, run, r_pos,
                   prev, fenceVars, noticeVars, dispatchVars, integrityVars>>

\* the provider answers; the handler returns or raises; on_pre_build writes
\* the target file with the notice, or logs "Translation failed"
EndTranslate ==
    /\ r_pc = "in_flight"
    /\ \E reply \in Replies(network[Len(network)].request) :
          LET pair == PairSeq[r_pos]
              h == resolve_handler(config.translation_service)
              res == handler_result(h, source_text[pair[1]], reply)
          IN  /\ last' = [pair |-> pair, service |-> h, remote_error |-> reply.error,
                          outcome |-> IF res.raised THEN "raised"
                                      ELSE IF res.text = <<>> THEN "empty" ELSE "text",
                          returned |-> res.text, warned |-> res.warned,
                          answered |-> ~ reply.error /\ ~ reply.none,
                          response |-> reply.text]
              /\ IF res.raised
                 THEN /\ r_pc' = "aborted"
                      /\ r_log' = [r_log EXCEPT ![pair].state = "raised"]
                      /\ UNCHANGED <<fs_files, fs_text, r_pos>>
                 ELSE /\ r_pc' = "loop"
                      /\ r_pos' = r_pos + 1
                      /\ IF is_translated(res.text)
                         THEN /\ fs_files' = fs_files \cup {pair}
                              /\ fs_text' = [fs_text EXCEPT ![pair] =
                                    plugin_add_translation_notice(config.theme_name,
                                        res.text, default_language, pair[2])]
                              /\ r_log' = [r_log EXCEPT ![pair].state = "written"]
                         ELSE /\ r_log' = [r_log EXCEPT ![pair].state = "skipped",
                                                        ![pair].warnings = @ + 1]
                              /\ UNCHANGED <<fs_files, fs_text>>
    /\ UNCHANGED <<config, cwd_is_root, source_text, run, network, prev,
                   fenceVars, noticeVars, dispatchVars, integrityVars>>

\* the loops are through: on_pre_build returns
FinishRun ==
    /\ r_pc = "loop"
    /\ r_pos > Len(PairSeq)
    /\ r_pc' = "done"
    /\ UNCHANGED <<config, cwd_is_root, source_text, fs_files, fs_text, run, r_pos,
                   r_log, network, last, prev, fenceVars, noticeVars, dispatchVars, integrityVars>>

Next == StartRun \/ SkipExisting \/ BeginTranslate \/ EndTranslate \/ FinishRun

Init == InitDriver

Spec == Init /\ [][Next]_vars

---------------------------------------------------------------------------
(* Properties of the Notice Inserter *)

\* a line made of a single "#", one blank and a non-empty rest starts at i
HeadingLineAt(t, i) ==
    /\ i = 1 \/ t[i - 1] = NL
    /\ i + 2 <= Len(t)
    /\ t[i] = "#"
    /\ t[i + 1] = " "
    /\ t[i + 2] # NL

HasHeadingLine(t) == \E i \in 1..Len(t) : HeadingLineAt(t, i)

FirstHeadingLine(t) == Min({i \in 1..Len(t) : HeadingLineAt(t, i)})

\* the position of the last unit of the line that starts at i, its trailing
\* newline included when it has one
LineLast(t, i) ==
    LET nls == {e \in i..Len(t) : t[e] = NL}
    IN  IF nls = {} THEN Len(t) ELSE Min(nls)

\* C3 as stated: for every document with a level-1 heading line, the notice
\* comes immediately after the first such line (after its trailing newline)
\* and never before that heading.
C3_AfterFirstHeading ==
    (n_pc = "inserted" /\ HasHeadingLine(n_content)) =>
        LET k == LineLast(n_content, FirstHeadingLine(n_content))
        IN  n_result = SubSeq(n_content, 1, k)
                          \o <<translation_notice(n_theme, n_source_lang, n_target_lang)>>
                          \o SubSeq(n_content, k + 1, Len(n_content))

\* the lines of three dashes, each ended by a newline, that can close a
\* frontmatter block opened by the first line: the opening line and the
\* closing line have at least one line, possibly an empty one, between them
ClosingLines(t) ==
    {i \in 4..(Len(t) - 1) : t[i - 1] = NL /\ t[i] = DASHES /\ t[i + 1] = NL}

\* the document begins with a frontmatter block
BeginsWithFrontmatter(t) ==
    /\ Len(t) >= 2
    /\ t[1] = DASHES
    /\ t[2] = NL
    /\ ClosingLines(t) # {}

\* the position of the newline that ends the leading frontmatter block
FrontmatterLast(t) == Min(ClosingLines(t)) + 1

InCapitals == [en |-> "EN", de |-> "DE", Fr |-> "FR"]

\* the template registered for a theme, filled in with two language codes
MaterialNotice(from, to) ==
    "\n!!! note\n    This document was automatically translated from "
        \o from \o " to " \o to \o ".\n\n"

DefaultNotice(from, to) ==
    "\n>NOTE:\nThis document was automatically translated from "
        \o from \o " to " \o to \o ".\n\n"

\* the units of the result that the document did not have
AddedUnits(content, result) ==
    {result[i] : i \in 1..Len(result)} \ {content[i] : i \in 1..Len(content)}

\* C12: for every theme identifier and language pair, the notice that insert
\* puts into the document is the template registered for the theme, or the
\* "default" template when the theme is not registered, rendered with both
\* language codes upper-cased.
C12_NoticeOfTheme ==
    n_pc = "inserted" =>
        AddedUnits(n_content, n_result) =
            { IF n_theme = "material"
              THEN MaterialNotice(InCapitals[n_source_lang], InCapitals[n_target_lang])
              ELSE DefaultNotice(InCapitals[n_source_lang], InCapitals[n_target_lang]) }

\* a theme that is not registered and a mixed-case code gave the default
\* template with the codes in capitals
C12_Witness ==
    /\ n_pc = "inserted"
    /\ n_theme \notin {"material", "default"}
    /\ n_target_lang = "Fr"
    /\ DefaultNotice("EN", "FR") \in AddedUnits(n_content, n_result)

\* the text without its k-th unit
WithoutUnit(t, k) == SubSeq(t, 1, k - 1) \o SubSeq(t, k + 1, Len(t))

\* the positions of the result that hold a notice
NoticePositions(content, result) ==
    {i \in 1..Len(result) : result[i] \in AddedUnits(content, result)}

\* C13: for every content, language pair and theme, the result of insert is
\* content[0..k) + notice + content[k..) for some position k: exactly one
\* notice block is added, every unit of the document is kept in order, and
\* removing the inserted notice gives back the document.
C13_OnlyNoticeAdded ==
    n_pc = "inserted" =>
        /\ Len(n_result) = Len(n_content) + 1
        /\ Cardinality(NoticePositions(n_content, n_result)) = 1
        /\ \E k \in 0..Len(n_content) :
              /\ SubSeq(n_result, 1, k) = SubSeq(n_content, 1, k)
              /\ NoticePositions(n_content, n_result) = {k + 1}
              /\ SubSeq(n_result, k + 2, Len(n_result))
                    = SubSeq(n_content, k + 1, Len(n_content))
              /\ WithoutUnit(n_result, k + 1) = n_content

\* the notice went into the middle of a document, with text on both sides
C13_Witness ==
    /\ n_pc = "inserted"
    /\ \E k \in 2..(Len(n_content) - 2) :
          /\ NoticePositions(n_content, n_result) = {k + 1}
          /\ WithoutUnit(n_result, k + 1) = n_content
          /\ n_content[k + 1] # NL

---------------------------------------------------------------------------
(* Properties of the Integrity Checker *)

\* the three counts of a text: header lines, fence markers, links
RawCounts(t) == <<header_count(t), fence_count(t), link_count_from(t, 1)>>

\* the three counts of a text, the fence markers counted in pairs
PairedCounts(t) == <<header_count(t), fence_count(t) \div 2, link_count_from(t, 1)>>

\* C14 as stated: for every pair of source and translated texts, no mismatch
\* is reported when the header count, the fence count and the link count of
\* the two texts are equal, and a mismatch is reported when any one of these
\* counts differs.
C14_MismatchIffCountsDifferAsStated ==
    c_pc = "checked" => (c_warned <=> RawCounts(c_source) # RawCounts(c_translated))

\* C14 amended: the same, with the fence count of each text halved and
\* rounded down (the number of whole fence pairs).
C14_MismatchIffCountsDiffer ==
    c_pc = "checked" => (c_warned <=> PairedCounts(c_source) # PairedCounts(c_translated))

\* a mismatch was reported for two texts that differ in the link count only
C14_Witness ==
    /\ c_pc = "checked"
    /\ c_warned
    /\ header_count(c_source) = header_count(c_translated)
    /\ fence_count(c_source) = fence_count(c_translated)
    /\ fence_count(c_source) = 2
    /\ link_count_from(c_source, 1) = 1
    /\ link_count_from(c_translated, 1) = 0

---------------------------------------------------------------------------
(* Properties of the Code-Fence Protector *)

\* placeholder tokens a text of the model can carry
IsPlaceholder(u) == \E i \in 0..(4 * MaxSegs) : u = Placeholder(i)

\* the placeholder tokens of a text, in order
RECURSIVE TokensOf(_)
TokensOf(t) ==
    IF t = <<>> THEN <<>>
    ELSE (IF IsPlaceholder(Head(t)) THEN <<Head(t)>> ELSE <<>>) \o TokensOf(Tail(t))

\* b is one fenced code block: a fence, a tag of lowercase letters, a
\* newline, any content, a newline, a fence, and no closing fence before
IsFencedBlock(b) ==
    /\ Len(b) >= 4
    /\ b[1] = FENCE
    /\ b[Len(b)] = FENCE
    /\ b[Len(b) - 1] = NL
    /\ \E j \in 2..(Len(b) - 2) :
          /\ \A m \in 2..(j - 1) : b[m] \in LowerLetters
          /\ b[j] = NL
          /\ ~ \E k \in (j + 1)..(Len(b) - 2) : b[k] = NL /\ b[k + 1] = FENCE

HasFencedBlock(t) ==
    \E i \in 1..Len(t) : \E e \in i..Len(t) : IsFencedBlock(SubSeq(t, i, e))

\* the text with its k-th, (k+1)-th, ... placeholder of the expected index
\* replaced, position by position, by the block of that index
RECURSIVE ExpandInOrder(_, _, _)
ExpandInOrder(t, blocks, k) ==
    IF t = <<>> THEN <<>>
    ELSE IF k < Len(blocks) /\ Head(t) = Placeholder(k)
         THEN blocks[k + 1] \o ExpandInOrder(Tail(t), blocks, k + 1)
         ELSE <<Head(t)>> \o ExpandInOrder(Tail(t), blocks, k)

NoTokenInBlocks(blocks) ==
    \A n \in 1..Len(blocks) : TokensOf(blocks[n]) = <<>>

\* the text carries no placeholder token whose index a block of the list has
NoLiveToken(t, blocks) ==
    \A n \in 1..Len(t) : \A i \in 0..(Len(blocks) - 1) : t[n] # Placeholder(i)

\* C1 as stated: for every text whose fenced code blocks contain no
\* placeholder token, restoring protect(T) with the blocks protect returned
\* gives back exactly T.
C1_RoundTripAsStated ==
    (f_pc = "restored" /\ NoTokenInBlocks(f_blocks)) => f_result = f_content

\* C1 amended: for every text whose fenced code blocks contain no placeholder
\* token and which carries, outside its blocks too, no placeholder token
\* whose index is below the number of its blocks, restoring protect(T) with
\* the blocks protect returned gives back exactly T.
C1_RoundTrip ==
    (/\ f_pc = "restored"
     /\ NoTokenInBlocks(f_blocks)
     /\ NoLiveToken(f_content, f_blocks)) => f_result = f_content

\* two blocks and a stray placeholder of a dead index were round-tripped
C1_Witness ==
    /\ f_pc = "restored"
    /\ Len(f_blocks) = 2
    /\ f_blocks[1] # f_blocks[2]
    /\ NoTokenInBlocks(f_blocks)
    /\ NoLiveToken(f_content, f_blocks)
    /\ f_result = f_content

RECURSIVE SumTokens(_)
SumTokens(blocks) ==
    IF blocks = <<>> THEN 0 ELSE Len(TokensOf(Head(blocks))) + SumTokens(Tail(blocks))

\* the statement of C10 about a protected text and its block list
ProtectedInOrder(content, protected, blocks) ==
    /\ \A n \in 1..Len(blocks) : IsFencedBlock(blocks[n])
    /\ ~ HasFencedBlock(protected)
    /\ TokensOf(protected) = [i \in 1..Len(blocks) |-> Placeholder(i - 1)]
    /\ ExpandInOrder(protected, blocks, 0) = content

\* C10 as stated: for every text with N fenced blocks, protect returns the N
\* blocks in order of appearance and the protected text carries exactly N
\* placeholder tokens, of indices 0..N-1 in order, the i-th block being
\* replaced by the token of index i.
C10_InOrderAsStated ==
    f_pc = "protected" => ProtectedInOrder(f_content, f_protected, f_blocks)

\* C10 amended: the same, for every text that carries no placeholder token
\* outside its fenced code blocks.
C10_InOrder ==
    (/\ f_pc = "protected"
     /\ Len(TokensOf(f_content)) = SumTokens(f_blocks))
        => ProtectedInOrder(f_content, f_protected, f_blocks)

\* a text with two different blocks, one of them holding a token, was protected
C10_Witness ==
    /\ f_pc = "protected"
    /\ Len(f_blocks) = 2
    /\ f_blocks[1] # f_blocks[2]
    /\ SumTokens(f_blocks) = 1
    /\ Len(TokensOf(f_content)) = 1
    /\ f_protected # f_content

\* C15: restoring fails with an error whenever it is invoked with no blocks
\* supplied: no restore entry point returns a text in that case.
C15_RestoreWithoutBlocksFails ==
    (f_pc \in {"restored", "raised"} /\ ~ f_code_blocks.supplied) =>
        /\ f_pc = "raised"
        /\ f_error # ""
        /\ f_result = <<>>

\* code_block_transform was asked to restore a text that holds a placeholder
\* without a block list, and raised its ValueError
C15_Witness ==
    /\ f_pc = "raised"
    /\ ~ f_code_blocks.supplied
    /\ f_error = "ValueError: code_blocks must be provided in restore mode"
    /\ Len(f_blocks) = 1
    /\ TokensOf(f_protected) # <<>>

---------------------------------------------------------------------------
(* Properties of the Translation Dispatcher *)

\* the backend a service name stands for, whatever its letter case
BackendOf(name) ==
    CASE name \in {"saia", "SAIA"} -> "saia"
      [] name \in {"deepl", "DeepL"} -> "deepl"
      [] name \in {"simpleen", "Simpleen"} -> "simpleen"
      [] OTHER -> "unregistered"

\* C9: a service name that is no registered backend in any letter case makes
\* translate_content fail with the configuration error before any network
\* call; a name that differs from a registered backend's only in letter case
\* resolves to that backend's handler.
C9_UnknownServiceFailsFast ==
    d_pc \in {"in_flight", "returned", "raised"} =>
        IF BackendOf(d_config.translation_service) = "unregistered"
        THEN /\ d_pc = "raised"
             /\ d_result.error = "ValueError: Unsupported translation service"
             /\ d_network = <<>>
        ELSE /\ d_handler = BackendOf(d_config.translation_service)
             /\ d_result.error # "ValueError: Unsupported translation service"

\* an unregistered name was refused
C9_Witness ==
    /\ d_pc = "raised"
    /\ d_config.translation_service = "Google"
    /\ d_network = <<>>

\* the reasoning regions of a response: from an opening tag to the first
\* closing tag after it
RegionsOf(t) ==
    {SubSeq(t, i, Min({j \in (i + 1)..Len(t) : t[j] = "</think>"})) :
        i \in {o \in 1..Len(t) :
                  t[o] = "<think>" /\ \E j \in (o + 1)..Len(t) : t[j] = "</think>"}}

\* C16: the text a handler returns after a successful provider call contains
\* none of the reasoning regions that the provider's response carried.
C16_NoReasoningReturned ==
    (d_pc = "returned" /\ d_result.answered) =>
        \A region \in RegionsOf(d_result.response) : ~ Contains(d_result.text, region)

\* the saia handler removes the reasoning region of a response that carries
\* exactly one
SaiaStripsOneRegion ==
    (/\ d_pc = "returned"
     /\ d_result.answered
     /\ d_handler = "saia"
     /\ Cardinality(RegionsOf(d_result.response)) = 1) =>
        \A region \in RegionsOf(d_result.response) : ~ Contains(d_result.text, region)

---------------------------------------------------------------------------
(* Properties of the handlers and of the Sync Driver *)

\* the fenced code blocks of a document
BlocksOf(doc) == protect_code_blocks(doc)[2]

\* the request shows none of the document's fenced blocks: each one is
\* replaced by the placeholder of its index
Shielded(doc, text) ==
    /\ \A n \in 1..Len(BlocksOf(doc)) : ~ Contains(text, BlocksOf(doc)[n])
    /\ ExpandInOrder(text, BlocksOf(doc), 0) = doc

\* C2: for every backend handler and every source document, the text handed
\* to the provider contains none of the document's fenced code blocks: each
\* block has been replaced by its placeholder before the call.
C2_ProviderNeverSeesCode ==
    \A n \in 1..Len(network) :
        Shielded(source_text[network[n].pair[1]], network[n].request.text)

\* C4: a written target file holds the Notice Inserter of section 4.3 applied
\* to the text the handler returned: after the first level-1 heading when the
\* returned text has one.
C4_WrittenFileIsInsert ==
    (last.outcome = "text" /\ r_log[last.pair].state = "written") =>
        fs_text[last.pair] =
            add_translation_notice(last.returned, default_language, last.pair[2],
                                   config.theme_name)

\* C5: when the remote call errors, the handler returns the empty result and
\* does not raise, whatever the backend.
C5_RemoteErrorGivesEmpty ==
    last.remote_error => last.outcome = "empty"

\* the translation of the k-th pair failed in this run
FailedAt(k) == r_log[PairSeq[k]].state \in {"skipped", "raised"}

\* C6: the failure of one pair's translation does not stop the run: the
\* failed pair is a skipped file with one warning, every later pair is still
\* examined and the run reaches its end.
C6_FailureDoesNotStopRun ==
    \A k \in 1..Len(PairSeq) :
        FailedAt(k) =>
            /\ r_pc # "aborted"
            /\ r_log[PairSeq[k]].state = "skipped"
            /\ r_log[PairSeq[k]].warnings = 1
            /\ r_pc = "done" =>
                  \A j \in (k + 1)..Len(PairSeq) : r_log[PairSeq[j]].state # "pending"

\* C7: the translation service is called only for a pair whose target file
\* does not exist when the pair is examined, so that no existing target is
\* written again, and a run that follows a run in which every translation
\* succeeded makes no call and writes no file.
C7_OnlyMissingTargets ==
    /\ r_pc = "in_flight" => PairSeq[r_pos] \notin fs_files
    /\ prev.clean =>
          /\ network = <<>>
          /\ \A p \in Pairs : r_log[p].state \in {"pending", "existing"}

\* C8: when the dispatcher returns the empty result for a pair, no file is
\* written for it: its target, missing when the pair was examined, is still
\* absent to the end of the run, and the next run that gets to the pair
\* attempts its translation again.
C8_EmptyResultLeavesTargetAbsent ==
    /\ last.outcome = "empty" =>
          /\ r_log[last.pair].state = "skipped"
          /\ r_log[last.pair].missing => last.pair \notin fs_files
    /\ \A p \in Pairs :
          (r_log[p].state = "skipped" /\ r_log[p].missing) => p \notin fs_files
    /\ \A k \in 1..Len(PairSeq) :
          (PairSeq[k] \in prev.skipped /\ r_pos > k) =>
              /\ r_log[PairSeq[k]].calls = 1
              /\ r_log[PairSeq[k]].state \in {"written", "skipped"}

\* a pair skipped for an empty result in one run was translated and written
\* in the next one
C8_Witness ==
    \E p \in prev.skipped :
        r_log[p].state = "written" /\ r_log[p].missing /\ r_pc = "done"

\* C17: when translation_service_api_key is the empty string, a run
\* translates nothing: no backend handler makes a network call and no target
\* file is written.
C17_EmptyKeyTranslatesNothing ==
    config.translation_service_api_key = "" =>
        /\ network = <<>>
        /\ \A p \in Pairs : r_log[p].state # "written"

\* the pairs of this run whose target was missing when they were examined
MissingPairs == {p \in Pairs : r_log[p].missing}

\* the provider is called at most once for a pair, and a pair is in its call
\* only when every pair before it is through with its own
NoRetryInOrder ==
    /\ \A p \in Pairs : r_log[p].calls <= 1
    /\ \A k \in 1..Len(PairSeq) :
          r_log[PairSeq[k]].state = "translating" =>
              \A j \in 1..(k - 1) :
                  r_log[PairSeq[j]].state \in {"existing", "written", "skipped"}

\* a pair with a missing target is TRANSLATING while its call is going on,
\* and WRITTEN or SKIPPED from then on
MissingPairStates ==
    \A k \in 1..Len(PairSeq) :
        PairSeq[k] \in MissingPairs =>
            /\ r_log[PairSeq[k]].state \in {"translating", "written", "skipped"}
            /\ r_log[PairSeq[k]].state = "translating" => (r_pc = "in_flight" /\ r_pos = k)

\* within a run, a pair with a missing target changes its state along
\* MISSING_TARGET -> TRANSLATING -> WRITTEN | SKIPPED only
MissingPairSteps ==
    run' = run =>
        \A p \in Pairs :
            (r_log'[p].missing /\ r_log'[p].state # r_log[p].state) =>
                <<r_log[p].state, r_log'[p].state>> \in
                    { <<"pending", "translating">>,
                      <<"translating", "written">>,
                      <<"translating", "skipped">> }

\* C18: within one run, each pair whose target is missing goes
\* MISSING_TARGET -> TRANSLATING -> WRITTEN or SKIPPED exactly once: the
\* provider is called at most once for the pair, and the pair has reached
\* WRITTEN or SKIPPED before the translation call of the next pair begins.
C18_PairStateMachine ==
    /\ [](NoRetryInOrder /\ MissingPairStates)
    /\ [][MissingPairSteps]_vars

\* what the saia handler makes of a response before it compares the counts:
\* the first reasoning region removed and the code blocks put back
Unchecked(doc, response) ==
    restore_loop(remove_all(response, reasoning_match(response)), BlocksOf(doc), 0)

\* the file holds the text and one notice, and nothing else
HoldsWithNotice(file, text) ==
    /\ Len(file) = Len(text) + 1
    /\ LET kept(u) == \E i \in 1..Len(text) : text[i] = u
       IN  SelectSeq(file, kept) = text

\* C19: the integrity check changes nothing: the text the handler returns is
\* made of the source document and the provider's response alone, and the
\* target file is written whenever that text is not empty, whether the
\* element counts of source and translation match or differ; a mismatch only
\* adds a warning.
C19_IntegrityCheckIsSoft ==
    (last.answered /\ last.outcome # "raised") =>
        LET doc == source_text[last.pair[1]]
        IN  /\ last.service = "saia" =>
                  /\ last.returned = strip(Unchecked(doc, last.response))
                  /\ last.warned <=>
                        PairedCounts(doc) # PairedCounts(Unchecked(doc, last.response))
            /\ r_log[last.pair].state =
                  IF last.returned # <<>> THEN "written" ELSE "skipped"
            /\ last.returned # <<>> =>
                  /\ last.pair \in fs_files
                  /\ HoldsWithNotice(fs_text[last.pair], last.returned)

\* the counts of a translation differed from the source's, the warning was
\* logged and the target file was written with the translation
C19_Witness ==
    /\ last.service = "saia"
    /\ last.answered
    /\ last.warned
    /\ header_count(last.returned) > header_count(source_text[last.pair[1]])
    /\ r_log[last.pair].state = "written"
    /\ last.pair \in fs_files
    /\ HoldsWithNotice(fs_text[last.pair], last.returned)

====
